---- MODULE Spec2Model ----
(***************************************************************************)
(* A model of the gocheck checkers of scale-it/checkers: Contains, IsIn,   *)
(* SliceEquals, MapEquals, SameContent, IsSorted (container.go) and        *)
(* TimeBetween, DurationLessThan (time.go).                                *)
(*                                                                         *)
(* A Go interface value is a record [type, isnil, val]: its dynamic type   *)
(* (the string reflect.Type prints), whether it is a nil slice/map (or the *)
(* nil interface, type "nil"), and its content.  The content of a slice or *)
(* array is the sequence of its elements, each again such a record (what   *)
(* reflect.Value.Index(i).Interface() yields); of a string, the sequence   *)
(* of its characters; of a map[string]int, a set of <<key, int>> pairs; of *)
(* an int, time.Time or time.Duration, an integer.                         *)
(*                                                                         *)
(* A call of Check either returns (result, error) or panics; the outcome   *)
(* is [panic, result, error], error being the list of the pieces the       *)
(* diagnostic is formatted from (<<>> is the empty string).                *)
(***************************************************************************)
EXTENDS Integers, Sequences, FiniteSets, TLC

\* ------------------------------------------------------------------ bounds
\* int elements are 1..MaxInt
MaxInt == 2
\* []int, sort.IntSlice and reversed containers have at most MaxLen elements
MaxLen == 3
\* slices of strings, of slices and of interfaces have at most NestedLen elements
NestedLen == 2
\* strings have at most MaxStrLen characters
MaxStrLen == 2
\* instants are 0..MaxTime
MaxTime == 2
\* durations are 0..MaxDur nanoseconds
MaxDur == 1

\* ------------------------------------------------------------------ values
V(t, n, v) == [type |-> t, isnil |-> n, val |-> v]

NilIface == V("nil", TRUE, <<>>)

Ints == 1..MaxInt
Chars == {"a", "b"}
Keys == {"a", "b"}

SeqsUpTo(S, n) == UNION {[1..k -> S] : k \in 0..n}

IntVals == {V("int", FALSE, i) : i \in Ints}
StrVals == {V("string", FALSE, s) : s \in SeqsUpTo(Chars, MaxStrLen)}
IntSeqs == SeqsUpTo(IntVals, MaxLen)
IntSliceVals == {V("[]int", FALSE, s) : s \in IntSeqs} \cup {V("[]int", TRUE, <<>>)}
SortIntSliceVals ==
    {V("sort.IntSlice", FALSE, s) : s \in IntSeqs} \cup {V("sort.IntSlice", TRUE, <<>>)}
ReverseVals == {V("*sort.reverse", FALSE, s) : s \in IntSeqs}
StrSliceVals ==
    {V("[]string", FALSE, s) :
        s \in SeqsUpTo({V("string", FALSE, <<>>), V("string", FALSE, <<"a">>)}, NestedLen)}
        \cup {V("[]string", TRUE, <<>>)}
InnerSlices ==
    {V("[]int", TRUE, <<>>), V("[]int", FALSE, <<>>), V("[]int", FALSE, <<V("int", FALSE, 1)>>)}
SliceSliceVals ==
    {V("[][]int", FALSE, s) : s \in SeqsUpTo(InnerSlices, NestedLen)}
        \cup {V("[][]int", TRUE, <<>>)}
Boxed ==
    {NilIface, V("int", FALSE, 1), V("string", FALSE, <<"a">>),
     V("[]int", FALSE, <<V("int", FALSE, 1)>>)}
IfaceSliceVals ==
    {V("[]interface {}", FALSE, s) : s \in SeqsUpTo(Boxed, NestedLen)}
ArrayVals == {V("[2]int", FALSE, <<x, y>>) : x \in IntVals, y \in IntVals}
MapContents == UNION {{{<<k, f[k]>> : k \in D} : f \in [D -> Ints]} : D \in SUBSET Keys}
MapVals ==
    {V("map[string]int", FALSE, m) : m \in MapContents}
        \cup {V("map[string]int", TRUE, {})}
TimeVals == {V("time.Time", FALSE, t) : t \in 0..MaxTime}
DurVals == {V("time.Duration", FALSE, d) : d \in 0..MaxDur}

Values ==
    {NilIface} \cup IntVals \cup StrVals \cup IntSliceVals \cup SortIntSliceVals
        \cup ReverseVals \cup StrSliceVals \cup SliceSliceVals \cup IfaceSliceVals
        \cup ArrayVals \cup MapVals \cup TimeVals \cup DurVals

\* ------------------------------------------------------------------ reflect
\* reflect.TypeOf(x): the dynamic type, "nil" standing for the nil reflect.Type
TypeOf(x) == x.type

\* reflect.Type.Kind() / reflect.Value.Kind(); the zero Value's kind is Invalid
KindOf(t) ==
    CASE t = "nil" -> "invalid"
      [] t = "int" -> "int"
      [] t = "string" -> "string"
      [] t \in {"[]int", "[]string", "[][]int", "[]interface {}", "sort.IntSlice"} -> "slice"
      [] t = "[2]int" -> "array"
      [] t = "map[string]int" -> "map"
      [] t = "time.Time" -> "struct"
      [] t = "time.Duration" -> "int64"
      [] t = "*sort.reverse" -> "ptr"
      [] OTHER -> "invalid"

\* reflect.Type.Elem() of a slice or array type
ElemOf(t) ==
    CASE t \in {"[]int", "sort.IntSlice", "[2]int"} -> "int"
      [] t = "[]string" -> "string"
      [] t = "[][]int" -> "[]int"
      [] t = "[]interface {}" -> "interface {}"
      [] OTHER -> "nil"

\* reflect.Value.Len() of a slice, array, string or map
LenOf(x) == IF KindOf(x.type) = "map" THEN Cardinality(x.val) ELSE Len(x.val)

\* how fmt prints a reflect.Type, the nil Type included
TypeStr(t) == IF t = "nil" THEN "<nil>" ELSE t

Digits == <<"0", "1", "2", "3", "4", "5", "6", "7", "8", "9">>
\* how fmt prints a small non-negative integer
IntStr(n) == IF n \in 0..9 THEN Digits[n + 1] ELSE "many"

RECURSIVE DeepEqual(_, _)
\* reflect.DeepEqual(x, y)
DeepEqual(x, y) ==
    IF x.type = "nil" \/ y.type = "nil" THEN x.type = y.type
    ELSE IF x.type # y.type THEN FALSE
    ELSE CASE KindOf(x.type) = "slice" ->
                /\ x.isnil = y.isnil
                /\ Len(x.val) = Len(y.val)
                /\ \A i \in 1..Len(x.val) : DeepEqual(x.val[i], y.val[i])
           [] KindOf(x.type) \in {"array", "ptr"} ->
                /\ Len(x.val) = Len(y.val)
                /\ \A i \in 1..Len(x.val) : DeepEqual(x.val[i], y.val[i])
           [] KindOf(x.type) = "map" ->
                /\ x.isnil = y.isnil
                /\ Cardinality(x.val) = Cardinality(y.val)
                /\ \A p \in x.val : \E q \in y.val : q[1] = p[1] /\ q[2] = p[2]
           [] OTHER -> x.val = y.val

\* ------------------------------------------------------------------ outcomes
Ret(b, e) == [panic |-> FALSE, result |-> b, error |-> e]
Panic(msg) == [panic |-> TRUE, result |-> FALSE, error |-> <<msg>>]
NoOutcome == [panic |-> FALSE, result |-> FALSE, error |-> <<"not called">>]

\* ------------------------------------------------------------------ Contains
\* ContainsLoop gone wrong: the scan gives up at the first element that differs
ContainsLoopFirstOnly(cv, value, i) ==
    IF i < LenOf(cv) THEN Ret(DeepEqual(cv.val[i + 1], value), <<>>)
    ELSE Ret(FALSE, <<>>)

RECURSIVE ContainsLoop(_, _, _)
\* the scan of container.go:29-34, i being the Go index
ContainsLoop(cv, value, i) ==
    IF i < LenOf(cv)
    THEN IF DeepEqual(cv.val[i + 1], value) THEN Ret(TRUE, <<>>)
         ELSE ContainsLoop(cv, value, i + 1)
    ELSE Ret(FALSE, <<>>)

\* StringsContains gone wrong: the empty substring is never found
StringsContainsNonEmpty(s, substr) ==
    /\ Len(substr) > 0
    /\ \E k \in 0..(Len(s) - Len(substr)) : SubSeq(s, k + 1, k + Len(substr)) = substr

\* strings.Contains(s, substr): substr occurs in s at some offset
StringsContains(s, substr) ==
    \E k \in 0..(Len(s) - Len(substr)) : SubSeq(s, k + 1, k + Len(substr)) = substr

\* containsChecker.Check
ContainsCheck(params) ==
    LET container == params[1]
        value == params[2]
        vtype == TypeOf(value)
        kind == KindOf(container.type)
    IN  IF kind \in {"slice", "array"}
        THEN IF ElemOf(container.type) # vtype THEN Ret(FALSE, <<>>)
             ELSE ContainsLoop(container, value, 0)
        ELSE IF kind = "string"
        THEN IF vtype = "nil" THEN Panic("nil pointer dereference")
             ELSE IF KindOf(vtype) # "string"
             THEN Ret(FALSE, <<"value should have type: ", TypeStr(vtype)>>)
             ELSE Ret(StringsContains(container.val, value.val), <<>>)
        ELSE Ret(FALSE, <<"Unsupported argument types: ", kind, " ", TypeStr(vtype)>>)

\* IsInCheck gone wrong: the arguments are passed on in the order given
IsInCheckUnswapped(params) == ContainsCheck(params)

\* isInChecker.Check
IsInCheck(params) == ContainsCheck(<<params[2], params[1]>>)

\* ------------------------------------------------------------------ SliceEquals, MapEquals
\* SliceEqualsCheck gone wrong: slices of equal length are compared element by element
SliceEqualsCheckElementwise(params) ==
    LET s1 == params[1]
        s2 == params[2]
    IN  IF KindOf(s1.type) # "slice" \/ KindOf(s2.type) # "slice"
        THEN Ret(FALSE, <<"Both arguments must be slices">>)
        ELSE IF LenOf(s1) # LenOf(s2) THEN Ret(FALSE, <<>>)
        ELSE Ret(\A i \in 1..LenOf(s1) : DeepEqual(s1.val[i], s2.val[i]), <<>>)

\* sliceEquals.Check
SliceEqualsCheck(params) ==
    LET s1 == params[1]
        s2 == params[2]
    IN  IF KindOf(s1.type) # "slice" \/ KindOf(s2.type) # "slice"
        THEN Ret(FALSE, <<"Both arguments must be slices">>)
        ELSE IF LenOf(s1) # LenOf(s2) THEN Ret(FALSE, <<>>)
        ELSE Ret(DeepEqual(s1, s2), <<>>)

\* mapEquals.Check
MapEqualsCheck(params) ==
    LET s1 == params[1]
        s2 == params[2]
    IN  IF KindOf(s1.type) # "map" \/ KindOf(s2.type) # "map"
        THEN Ret(FALSE, <<"Both arguments must be maps">>)
        ELSE IF LenOf(s1) # LenOf(s2) THEN Ret(FALSE, <<>>)
        ELSE Ret(DeepEqual(s1, s2), <<>>)

\* ------------------------------------------------------------------ SameContent
\* whether the runtime can hash x as a map[interface{}]int key
Hashable(x) == KindOf(x.type) \notin {"slice", "map", "func"}

\* m[k]++ on a map[interface{}]int
Incr(m, k) == IF k \in DOMAIN m THEN [m EXCEPT ![k] = @ + 1] ELSE m @@ (k :> 1)

\* the empty map[interface{}]int
EmptyCounts == [k \in {} |-> 0]

RECURSIVE CountLoop(_, _, _, _, _)
\* the loop of container.go:161-164; yields <<panicked, mob, mexp>>
CountLoop(vob, vexp, mob, mexp, i) ==
    IF i < LenOf(vexp)
    THEN IF ~Hashable(vexp.val[i + 1]) \/ ~Hashable(vob.val[i + 1])
         THEN <<TRUE, mob, mexp>>
         ELSE CountLoop(vob, vexp, Incr(mob, vob.val[i + 1]), Incr(mexp, vexp.val[i + 1]), i + 1)
    ELSE <<FALSE, mob, mexp>>

\* reflect.DeepEqual on two map[interface{}]int
CountsDeepEqual(m1, m2) ==
    /\ Cardinality(DOMAIN m1) = Cardinality(DOMAIN m2)
    /\ \A k \in DOMAIN m1 : k \in DOMAIN m2 /\ m1[k] = m2[k]

\* how %q prints a reflect.Kind or reflect.Type (the quote character written as an apostrophe)
Quoted(s) == <<"'", s, "'">>

\* sameContent.Check
SameContentCheck(params) ==
    IF Len(params) # 2 THEN Ret(FALSE, <<"SameContent expects two slice arguments">>)
    ELSE
    LET obtained == params[1]
        expected == params[2]
        tob == TypeOf(obtained)
        texp == TypeOf(expected)
    IN  IF tob = "nil" THEN Panic("nil pointer dereference")
        ELSE IF KindOf(tob) # "slice"
        THEN Ret(FALSE, <<"SameContent expects the obtained value to be a slice, got ">>
                            \o Quoted(KindOf(tob)))
        ELSE IF texp = "nil" THEN Panic("nil pointer dereference")
        ELSE IF KindOf(texp) # "slice"
        THEN Ret(FALSE, <<"SameContent expects the expected value to be a slice, got ">>
                            \o Quoted(KindOf(texp)))
        ELSE IF texp # tob
        THEN Ret(FALSE, <<"SameContent expects two slices of the same type, expected: ">>
                            \o Quoted(texp) \o <<", got: ">> \o Quoted(tob))
        ELSE IF LenOf(obtained) # LenOf(expected) THEN Ret(FALSE, <<>>)
        ELSE LET c == CountLoop(obtained, expected, EmptyCounts, EmptyCounts, 0)
             IN  IF c[1] THEN Panic("hash of unhashable type")
                 ELSE Ret(CountsDeepEqual(c[2], c[3]), <<>>)

\* ------------------------------------------------------------------ IsSorted
\* params[0].(sort.Interface) succeeds
ImplementsSort(x) == x.type \in {"sort.IntSlice", "*sort.reverse"}

\* container.Less(i, j), i and j being Go indexes
Less(c, i, j) ==
    IF c.type = "*sort.reverse" THEN c.val[j + 1].val < c.val[i + 1].val
    ELSE c.val[i + 1].val < c.val[j + 1].val

RECURSIVE IsSortedLoopShort(_, _)
\* IsSortedLoop gone wrong: the loop stops one pair early
IsSortedLoopShort(c, i) ==
    IF i < LenOf(c) - 2
    THEN IF Less(c, i + 1, i)
         THEN Ret(FALSE, <<"value is not ordered at index ", IntStr(i + 1)>>)
         ELSE IsSortedLoopShort(c, i + 1)
    ELSE Ret(TRUE, <<>>)

RECURSIVE IsSortedLoop(_, _)
\* the loop of container.go:184-189
IsSortedLoop(c, i) ==
    IF i < LenOf(c) - 1
    THEN IF Less(c, i + 1, i)
         THEN Ret(FALSE, <<"value is not ordered at index ", IntStr(i + 1)>>)
         ELSE IsSortedLoop(c, i + 1)
    ELSE Ret(TRUE, <<>>)

\* isSorted.Check
IsSortedCheck(params) ==
    IF ~ImplementsSort(params[1])
    THEN Ret(FALSE, <<"value object must implement sort.Interface">>)
    ELSE IsSortedLoop(params[1], 0)

\* ------------------------------------------------------------------ time.go
\* time.Time.Before / After on instants
Before(t, u) == t < u
After(t, u) == t > u

\* how %#v prints an instant
TimeStr(t) == IntStr(t)

\* TimeBetween gone wrong: the bounds are kept in the order given
TimeBetweenUnordered(start, end) == [start |-> start, end |-> end]

\* TimeBetween(start, end): the checker it returns
TimeBetween(start, end) ==
    IF Before(end, start) THEN [start |-> end, end |-> start]
    ELSE [start |-> start, end |-> end]

\* timeBetweenChecker.Check
TimeBetweenCheck(checker, params) ==
    IF params[1].type # "time.Time"
    THEN Ret(FALSE, <<"obtained value type must be time.Time">>)
    ELSE LET when == params[1].val
         IN  IF Before(when, checker.start)
             THEN Ret(FALSE, <<"obtained value ", TimeStr(when),
                                " type must before start value of ", TimeStr(checker.start)>>)
             ELSE IF After(when, checker.end)
             THEN Ret(FALSE, <<"obtained value ", TimeStr(when),
                                " type must after end value of ", TimeStr(checker.end)>>)
             ELSE Ret(TRUE, <<>>)

\* DurationLessThanCheck gone wrong: the verdict always carries a diagnostic
DurationLessThanCheckNoisy(params) ==
    IF params[1].type # "time.Duration"
    THEN Ret(FALSE, <<"obtained value type must be time.Duration">>)
    ELSE IF params[2].type # "time.Duration"
    THEN Ret(FALSE, <<"expected value type must be time.Duration">>)
    ELSE Ret(params[1].val < params[2].val, <<"expected value type must be time.Duration">>)

\* durationLessThanChecker.Check
DurationLessThanCheck(params) ==
    IF params[1].type # "time.Duration"
    THEN Ret(FALSE, <<"obtained value type must be time.Duration">>)
    ELSE IF params[2].type # "time.Duration"
    THEN Ret(FALSE, <<"expected value type must be time.Duration">>)
    ELSE Ret(params[1].val < params[2].val, <<>>)

\* ------------------------------------------------------------------ the state machine
\* One behaviour is one assertion of the harness: it calls Check of a package-level
\* checker, or builds a checker with TimeBetween and calls that checker's Check.
VARIABLES
    tb,     \* the timeBetweenChecker: its start and end fields
    ctor,   \* the (start, end) arguments TimeBetween was called with
    pc,     \* "ready", "built" once TimeBetween returned, "done" once Check ended
    call    \* the call of Check: the checker, its params and the outcome

vars == <<tb, ctor, pc, call>>

\* the zero timeBetweenChecker, before TimeBetween fills it
NoChecker == [start |-> 0, end |-> 0]

Init ==
    /\ tb = NoChecker
    /\ ctor = <<0, 0>>
    /\ pc = "ready"
    /\ call = [checker |-> "none", params |-> <<>>, out |-> NoOutcome]

\* Check ended: the harness holds its outcome
Called(name, params, out) ==
    /\ pc' = "done"
    /\ call' = [checker |-> name, params |-> params, out |-> out]
    /\ UNCHANGED <<tb, ctor>>

NewTimeBetween ==
    /\ pc = "ready"
    /\ \E start \in 0..MaxTime, end \in 0..MaxTime :
          /\ tb' = TimeBetween(start, end)
          /\ ctor' = <<start, end>>
    /\ pc' = "built"
    /\ UNCHANGED call

CheckContains ==
    /\ pc = "ready"
    /\ \E c \in Values, v \in Values : Called("Contains", <<c, v>>, ContainsCheck(<<c, v>>))

CheckIsIn ==
    /\ pc = "ready"
    /\ \E v \in Values, c \in Values : Called("IsIn", <<v, c>>, IsInCheck(<<v, c>>))

CheckSliceEquals ==
    /\ pc = "ready"
    /\ \E a \in Values, b \in Values :
          Called("SliceEquals", <<a, b>>, SliceEqualsCheck(<<a, b>>))

CheckMapEquals ==
    /\ pc = "ready"
    /\ \E a \in Values, b \in Values : Called("MapEquals", <<a, b>>, MapEqualsCheck(<<a, b>>))

CheckSameContent ==
    /\ pc = "ready"
    /\ \E a \in Values, b \in Values :
          Called("SameContent", <<a, b>>, SameContentCheck(<<a, b>>))

CheckIsSorted ==
    /\ pc = "ready"
    /\ \E c \in Values : Called("IsSorted", <<c>>, IsSortedCheck(<<c>>))

CheckTimeBetween ==
    /\ pc = "built"
    /\ \E v \in Values : Called("TimeBetween", <<v>>, TimeBetweenCheck(tb, <<v>>))

CheckDurationLessThan ==
    /\ pc = "ready"
    /\ \E a \in Values, b \in Values :
          Called("DurationLessThan", <<a, b>>, DurationLessThanCheck(<<a, b>>))

Next ==
    \/ NewTimeBetween
    \/ CheckContains
    \/ CheckIsIn
    \/ CheckSliceEquals
    \/ CheckMapEquals
    \/ CheckSameContent
    \/ CheckIsSorted
    \/ CheckTimeBetween
    \/ CheckDurationLessThan

Spec == Init /\ [][Next]_vars

\* ------------------------------------------------------------------ claims
\* Check of the named checker ended
Is(name) == pc = "done" /\ call.checker = name
\* the i-th argument of the call (params[i-1] in Go)
P(i) == call.params[i]
IsSliceV(x) == KindOf(x.type) = "slice"
IsMapV(x) == KindOf(x.type) = "map"
\* how many times element e occurs in slice x
Occurrences(x, e) == Cardinality({i \in 1..Len(x.val) : x.val[i] = e})
ElemsOf(x) == {x.val[i] : i \in 1..Len(x.val)}
\* a and b hold the same elements the same number of times
SameMultiset(a, b) ==
    \A e \in ElemsOf(a) \cup ElemsOf(b) : Occurrences(a, e) = Occurrences(b, e)

\* C1: for slices a and b of one slice type, SameContent returns true iff a and b
\* have the same length and every element occurs as often in a as in b, and it
\* returns (false, "") when the lengths differ.
C1_SameContentIsMultisetEquality ==
    (Is("SameContent") /\ IsSliceV(P(1)) /\ P(1).type = P(2).type) =>
        /\ ~call.out.panic
        /\ call.out.result = (LenOf(P(1)) = LenOf(P(2)) /\ SameMultiset(P(1), P(2)))
        /\ (LenOf(P(1)) # LenOf(P(2)) => call.out = Ret(FALSE, <<>>))

\* C2: for a slice or array s and a value v of s's element type, Contains returns
\* true iff v deep-equals some element of s, with an empty diagnostic either way.
C2_ContainsFindsDeepEqualElement ==
    (/\ Is("Contains")
     /\ KindOf(P(1).type) \in {"slice", "array"}
     /\ TypeOf(P(2)) = ElemOf(P(1).type)) =>
        call.out = Ret(\E i \in 1..Len(P(1).val) : DeepEqual(P(1).val[i], P(2)), <<>>)

\* C2 witness: Contains found the value past the first element of a slice.
C2_Witness ==
    /\ Is("Contains")
    /\ KindOf(P(1).type) \in {"slice", "array"}
    /\ TypeOf(P(2)) = ElemOf(P(1).type)
    /\ Len(P(1).val) >= 2
    /\ ~DeepEqual(P(1).val[1], P(2))
    /\ call.out.result

\* C3: IsIn.Check([v, c]) ends exactly as Contains.Check([c, v]) does, on every input.
C3_IsInIsContainsSwapped ==
    Is("IsIn") => call.out = ContainsCheck(<<P(2), P(1)>>)

\* C3 witness: IsIn found a value in a container of another type than the value's.
C3_Witness ==
    /\ Is("IsIn")
    /\ P(1).type # P(2).type
    /\ call.out.result

\* the call is one of the type-mismatch or wrong-shape cases C4 lists
Mismatch(name, a, b) ==
    \/ /\ name = "Contains"
       /\ KindOf(a.type) \in {"slice", "array"}
       /\ TypeOf(b) # ElemOf(a.type)
    \/ /\ name = "IsIn"
       /\ KindOf(b.type) \in {"slice", "array"}
       /\ TypeOf(a) # ElemOf(b.type)
    \/ name = "SliceEquals" /\ (~IsSliceV(a) \/ ~IsSliceV(b))
    \/ name = "MapEquals" /\ (~IsMapV(a) \/ ~IsMapV(b))
    \/ name = "SameContent" /\ (~IsSliceV(a) \/ ~IsSliceV(b))
    \/ name = "IsSorted" /\ ~ImplementsSort(a)
    \/ name = "TimeBetween" /\ a.type # "time.Time"
    \/ name = "DurationLessThan" /\ (a.type # "time.Duration" \/ b.type # "time.Duration")

\* C4: a type-mismatch or wrong-shape input to any checker yields verdict false
\* together with a non-empty diagnostic.
C4_MismatchIsDiagnosed ==
    (pc = "done" /\ Mismatch(call.checker, P(1), call.params[Len(call.params)])) =>
        /\ ~call.out.panic
        /\ ~call.out.result
        /\ call.out.error # <<>>

\* C5: Check always returns a (bool, string) result and never panics.
C5_CheckNeverPanics ==
    pc = "done" => ~call.out.panic

\* the Go indexes i at which the container is out of order: Less(i+1, i)
OutOfOrder(c) == {i \in 0..(LenOf(c) - 2) : Less(c, i + 1, i)}
Smallest(S) == CHOOSE i \in S : \A j \in S : i <= j

Min2(a, b) == IF a <= b THEN a ELSE b
Max2(a, b) == IF a <= b THEN b ELSE a

\* C7: the checker TimeBetween(t1, t2) passes an instant v iff
\* min(t1, t2) <= v <= max(t1, t2); TimeBetween(t2, t1) gives the same verdict,
\* and a value equal to either bound passes.
C7_TimeBetweenIsInclusiveAndSymmetric ==
    (Is("TimeBetween") /\ P(1).type = "time.Time") =>
        /\ ~call.out.panic
        /\ call.out.result =
              (Min2(ctor[1], ctor[2]) <= P(1).val /\ P(1).val <= Max2(ctor[1], ctor[2]))
        /\ call.out.result =
              TimeBetweenCheck(TimeBetween(ctor[2], ctor[1]), call.params).result
        /\ P(1).val \in {ctor[1], ctor[2]} => call.out.result

\* C7 witness: a checker built with start after end passed a value equal to start.
C7_Witness ==
    /\ Is("TimeBetween")
    /\ P(1).type = "time.Time"
    /\ ctor[1] > ctor[2]
    /\ P(1).val = ctor[1]
    /\ call.out.result

\* the container of a Contains or IsIn call
ContainerOfCall == IF call.checker = "IsIn" THEN P(2) ELSE P(1)
ValueOfCall == IF call.checker = "IsIn" THEN P(1) ELSE P(2)
IsContainment == pc = "done" /\ call.checker \in {"Contains", "IsIn"}

WrongKindIsDiagnosed ==
    /\ (Is("SliceEquals") /\ (~IsSliceV(P(1)) \/ ~IsSliceV(P(2)))) =>
          (~call.out.panic /\ ~call.out.result /\ call.out.error # <<>>)
    /\ (Is("MapEquals") /\ (~IsMapV(P(1)) \/ ~IsMapV(P(2)))) =>
          (~call.out.panic /\ ~call.out.result /\ call.out.error # <<>>)

C10_TrueVerdictHasNoDiagnostic ==
    (pc = "done" /\ ~call.out.panic /\ call.out.result) => call.out.error = <<>>

\* C10 witness: DurationLessThan passed a shorter duration, without a diagnostic.
C10_Witness ==
    /\ Is("DurationLessThan")
    /\ call.out.result
    /\ call.out.error = <<>>

====
